---- MODULE Spec2Model ----
(***************************************************************************)
(* Model of pyauto_desktop.detection.DetectionWorker: the image-detection  *)
(* pipeline (run_image_detection) and the region-capture / text pipeline   *)
(* (run_text_extraction).  Each worker is one QThread instance; its fields *)
(* are the request (req), its locals are wk, and what it emits on          *)
(* result_signal / text_signal is recorded in results / texts.             *)
(*                                                                         *)
(* Conventions: a rect is <<x, y, w, h>>; Python None (and any other falsy *)
(* tuple) is <<>>; a float is an unreduced fraction <<num, den>>, den > 0. *)
(***************************************************************************)
EXTENDS Integers, Sequences, FiniteSets, TLC

VARIABLES req, wk, results, texts, escaped, calls, maxOut

vars == <<req, wk, results, texts, escaped, calls, maxOut>>

Workers == {1, 2}

\* ------------------------------------------------------------------ bounds
\* Longest match sequence the search primitive returns in a single-worker run.
MaxMatches == 2
\* Longest match sequence the search primitive returns when two workers run.
ConcMatches == 1

\* ------------------------------------------------------------- value helpers
None == <<>>

\* Python truthiness of a float-or-None.
TruthyNum(f) == f # None /\ f[1] # 0

\* Python truthiness of a tuple-or-None.
Truthy(t) == t # None

One == <<1, 1>>

\* a / b for two fractions.
FracDiv(a, b) == <<a[1] * b[2], a[2] * b[1]>>

FracEq(a, b) == a[1] * b[2] = b[1] * a[2]

\* int(n * f): Python's int() truncates toward zero.
IntMul(n, f) ==
    LET p == n * f[1]
    IN  IF p >= 0 THEN p \div f[2] ELSE -((-p) \div f[2])

SeqsUpTo(U, n) == UNION {[1..k -> U] : k \in 0..n}

\* ------------------------------------------------------- utils (not in src/)
\* A conversion that also takes the origin off the size.
global_to_local_all(rect, origin) ==
    <<rect[1] - origin[1], rect[2] - origin[2], rect[3] - origin[1], rect[4] - origin[2]>>

global_to_local(rect, origin) ==
    <<rect[1] - origin[1], rect[2] - origin[2], rect[3], rect[4]>>

local_to_global(rect, origin) ==
    <<rect[1] + origin[1], rect[2] + origin[2], rect[3], rect[4]>>

\* ---------------------------------------------------------------- AnchorConfig
\* anchor_config is a dict; here <<offset_x, offset_y, w, h, margin_x, margin_y>>.
OffsetX(c) == c[1]
OffsetY(c) == c[2]
CfgW(c) == c[3]
CfgH(c) == c[4]
MarginX(c) == c[5]
MarginY(c) == c[6]

AnchorConfigs ==
    { <<10, 10, 100, 50, 5, 5>>,      \* usable
      <<3, -2, 0, 50, 0, 0>>,         \* w = 0: degenerate
      <<3, -2, 4, 6, 1, -3>> }        \* h + 2*margin_y = 0: degenerate

\* ----------------------------------------------------------- request domains
ScalingConfigs ==
    { [scaling_type |-> "dpr", source_dpr |-> d, source_resolution |-> None]
        : d \in {None, <<0, 1>>, <<1, 1>>, <<3, 2>>} }
    \cup
    { [scaling_type |-> "resolution", source_dpr |-> One, source_resolution |-> r]
        : r \in {None, <<1920, 1080>>, <<0, 1080>>, <<1920, 0>>} }

DefaultScaling ==
    [scaling_type |-> "dpr", source_dpr |-> One, source_resolution |-> None]

SearchRegions == {None, <<-5, 5, 7, 9>>}

ScreenIdxs == {0, 1, 2}

TextRects == {None, <<10, 10, 20, 20>>, <<-4, 6, 20, 20>>}

TextOffsets == {None, <<2, 3, 1, 4>>, <<0, 0, 0, 0>>}

\* DetectionWorker.__init__ arguments.
Request(mode, idx, sc, aimg, acfg, sreg, trect, toff) ==
    [mode |-> mode, screen_idx |-> idx, scaling |-> sc, anchor_img |-> aimg,
     anchor_config |-> acfg, search_region |-> sreg, text_rect |-> trect,
     text_offsets |-> toff]

\* Scaling configuration of the anchored requests with a usable or degenerate
\* AnchorConfig (the anchored branch never reads the scale factors).
AnchoredScalings ==
    { [scaling_type |-> "resolution", source_dpr |-> <<3, 2>>,
       source_resolution |-> <<1920, 1080>>] }

ImageRequests ==
    { Request("image", idx, sc, a[1], a[2], sreg, None, None) :
        idx \in ScreenIdxs, sc \in ScalingConfigs, sreg \in SearchRegions,
        a \in { <<FALSE, None>>, <<TRUE, None>>, <<FALSE, <<10, 10, 100, 50, 5, 5>> >> } }
    \cup
    { Request("image", idx, sc, TRUE, acfg, sreg, None, None) :
        idx \in ScreenIdxs, sc \in AnchoredScalings, acfg \in AnchorConfigs,
        sreg \in SearchRegions }

TextRequests ==
    { Request("text", idx, DefaultScaling, aimg, acfg, None, trect, toff) :
        idx \in ScreenIdxs, aimg \in BOOLEAN,
        acfg \in {None, <<10, 10, 100, 50, 5, 5>>},
        trect \in TextRects, toff \in TextOffsets }

Requests == ImageRequests \cup TextRequests

\* Requests of the two-worker runs: two anchored scans, a direct scan, and the
\* two branches of the text pipeline.
ConcRequests ==
    << Request("image", 1, DefaultScaling, TRUE, <<10, 10, 100, 50, 5, 5>>, None, None, None),
       Request("image", 1, DefaultScaling, TRUE, <<-7, 4, 20, 30, 0, 2>>,
               <<-5, 5, 7, 9>>, None, None),
       Request("image", 0, DefaultScaling, FALSE, None, <<-5, 5, 7, 9>>, None, None),
       Request("text", 0, DefaultScaling, FALSE, None, None, <<10, 10, 20, 20>>,
               <<2, 3, 1, 4>>),
       Request("text", 1, DefaultScaling, TRUE, <<10, 10, 100, 50, 5, 5>>, None,
               <<-4, 6, 20, 20>>, <<0, 0, 0, 0>>) >>

\* ------------------------------------------------------------- environment
\* What get_monitors_safe / get_monitor_dpr report: monitors are (x, y, w, h).
Displays ==
    { [monitors |-> <<>>, dprs |-> <<>>],
      [monitors |-> << <<0, 0, 1920, 1080>> >>, dprs |-> << One >>],
      [monitors |-> << <<0, 0, 1920, 1080>>, <<1920, 0, 3840, 2160>> >>,
       dprs |-> << None, <<2, 1>> >>] }

AnchorRects == { <<200, 300, 30, 30>>, <<0, 40, 8, 8>> }

TargetRects == { <<1, 2, 3, 4>>, <<50, 60, 7, 8>> }

\* Outcome of one call of an external primitive: it raises, or it returns.
Outcomes(U, n) ==
    { [raised |-> TRUE, rects |-> <<>>] }
    \cup { [raised |-> FALSE, rects |-> s] : s \in SeqsUpTo(U, n) }

Call(fn, image, region, o) ==
    [fn |-> fn, image |-> image, region |-> region, raised |-> o.raised,
     rects |-> o.rects]

\* --------------------------------------------------------------- locals
Local0 ==
    [pc |-> "start", monitors |-> <<>>, selected_screen |-> None,
     target_dpr |-> None, scale_x |-> One, scale_y |-> One,
     anchors_list |-> <<>>, found_anchors |-> <<>>, i |-> 1,
     final_rects |-> <<>>, scanned_regions |-> <<>>,
     final_region |-> None, capture_region |-> None, img_data |-> "none",
     engine |-> [raised |-> FALSE, rects |-> <<>>]]

Off == [Local0 EXCEPT !.pc = "off"]

\* A DetectionResult as emitted on result_signal.
Result(rects, anchors, scanned, count) ==
    [rects |-> rects, anchors |-> anchors, scanned_regions |-> scanned,
     count |-> count]

EmptyResult == Result(<<>>, <<>>, <<>>, 0)

\* The three lists kept on the class, so that every running worker sees the
\* lists of the worker that wrote last.
CommitShared(w, l) ==
    [v \in Workers |->
        IF v = w THEN l
        ELSE IF wk[v].pc \in {"off", "done"} THEN wk[v]
        ELSE [wk[v] EXCEPT !.final_rects = l.final_rects,
                           !.found_anchors = l.found_anchors,
                           !.scanned_regions = l.scanned_regions]]

\* Each worker's locals are its own: a step of w replaces wk[w] only.
Commit(w, l) == [wk EXCEPT ![w] = l]

Step(w, l, emitR, emitT, newCalls, esc) ==
    /\ wk' = Commit(w, l)
    /\ results' = [results EXCEPT ![w] = @ \o emitR]
    /\ texts' = [texts EXCEPT ![w] = @ \o emitT]
    /\ calls' = [calls EXCEPT ![w] = @ \o newCalls]
    /\ escaped' = [escaped EXCEPT ![w] = esc]
    /\ UNCHANGED <<req, maxOut>>

\* ------------------------------------------------------- run_image_detection
\* run_image_detection without its except clause: the exception leaves run().
ExceptImageEscapes(w, l, newCalls) ==
    Step(w, [l EXCEPT !.pc = "done"], <<>>, <<>>, newCalls, TRUE)

\* An except clause that emits whatever the locals hold at the time.
ExceptImagePartial(w, l, newCalls) ==
    Step(w, [l EXCEPT !.pc = "done"],
         <<Result(l.final_rects, l.found_anchors, l.scanned_regions,
                  Len(l.final_rects))>>, <<>>, newCalls, FALSE)

\* The except clause of run_image_detection.
ExceptImage(w, l, newCalls) ==
    Step(w, [l EXCEPT !.pc = "done"], <<EmptyResult>>, <<>>, newCalls, FALSE)

InRange(idx, monitors) == idx < Len(monitors)

\* Scale factors with the dpr ratio inverted and the zero checks dropped.
ScaleFactorsInverted(sc, selected_screen, target_dpr) ==
    IF sc.scaling_type = "dpr"
    THEN IF TruthyNum(sc.source_dpr) /\ TruthyNum(target_dpr)
         THEN LET ratio == FracDiv(sc.source_dpr, target_dpr) IN <<ratio, ratio>>
         ELSE <<One, One>>
    ELSE IF Truthy(sc.source_resolution)
    THEN << <<selected_screen[3], sc.source_resolution[1]>>,
            <<selected_screen[4], sc.source_resolution[2]>> >>
    ELSE <<One, One>>

\* Scale factors (scale_x, scale_y) of one run.
ScaleFactors(sc, selected_screen, target_dpr) ==
    IF sc.scaling_type = "dpr"
    THEN IF TruthyNum(sc.source_dpr) /\ TruthyNum(target_dpr)
         THEN LET ratio == FracDiv(target_dpr, sc.source_dpr) IN <<ratio, ratio>>
         ELSE <<One, One>>
    ELSE IF sc.scaling_type = "resolution"
    THEN IF Truthy(sc.source_resolution)
         THEN LET sr_w == sc.source_resolution[1]
                  sr_h == sc.source_resolution[2]
                  tr_w == selected_screen[3]
                  tr_h == selected_screen[4]
              IN  IF sr_w > 0 /\ sr_h > 0
                  THEN << <<tr_w, sr_w>>, <<tr_h, sr_h>> >>
                  ELSE <<One, One>>
         ELSE <<One, One>>
    ELSE <<One, One>>

Anchored(r) == r.anchor_img /\ Truthy(r.anchor_config)

\* try-block head: locals, get_monitors_safe, Session, bounds check, scale.
RunImageStart(w) ==
    /\ wk[w].pc = "start"
    /\ req[w].mode = "image"
    /\ \/ \E d \in Displays :
            LET l1 == [wk[w] EXCEPT !.monitors = d.monitors]
                idx == req[w].screen_idx
            IN  IF ~InRange(idx, d.monitors)
                THEN Step(w, [l1 EXCEPT !.pc = "done"], <<EmptyResult>>, <<>>, <<>>, FALSE)
                ELSE LET sel == d.monitors[idx + 1]
                         tdpr == d.dprs[idx + 1]
                         s == ScaleFactors(req[w].scaling, sel, tdpr)
                     IN  Step(w, [l1 EXCEPT !.selected_screen = sel,
                                            !.target_dpr = tdpr,
                                            !.scale_x = s[1], !.scale_y = s[2],
                                            !.pc = IF Anchored(req[w])
                                                   THEN "locate" ELSE "direct"],
                              <<>>, <<>>, <<>>, FALSE)
       \/ ExceptImage(w, wk[w], <<>>)

\* An anchor search that falls back to the direct scan when nothing is found.
LocateAnchorsFallback(w) ==
    /\ wk[w].pc = "locate"
    /\ \E o \in Outcomes(AnchorRects, maxOut) :
         LET c == Call("locateAll", "anchor", req[w].search_region, o)
         IN  IF o.raised
             THEN ExceptImage(w, wk[w], <<c>>)
             ELSE Step(w, [wk[w] EXCEPT !.anchors_list = o.rects,
                                        !.found_anchors = o.rects,
                                        !.i = 1,
                                        !.pc = IF o.rects = <<>>
                                               THEN "direct" ELSE "anchor"],
                       <<>>, <<>>, <<c>>, FALSE)

\* The anchor search: session.locateAllOnScreen(image=anchor_img, ...).
LocateAnchors(w) ==
    /\ wk[w].pc = "locate"
    /\ \E o \in Outcomes(AnchorRects, maxOut) :
         LET c == Call("locateAll", "anchor", req[w].search_region, o)
         IN  IF o.raised
             THEN ExceptImage(w, wk[w], <<c>>)
             ELSE Step(w, [wk[w] EXCEPT !.anchors_list = o.rects,
                                        !.found_anchors = o.rects,
                                        !.i = 1, !.pc = "anchor"],
                       <<>>, <<>>, <<c>>, FALSE)

\* A derived region whose margins grow the size but do not move the origin.
DerivedRegionNoShift(cfg, a) ==
    <<a[1] + OffsetX(cfg), a[2] + OffsetY(cfg),
      CfgW(cfg) + (MarginX(cfg) * 2), CfgH(cfg) + (MarginY(cfg) * 2)>>

\* The region derived from one anchor match (region_x, region_y, region_w, region_h).
DerivedRegion(cfg, a) ==
    LET margin_x == MarginX(cfg)
        margin_y == MarginY(cfg)
        rel_rect_with_margin ==
            global_to_local(<<OffsetX(cfg), OffsetY(cfg), 0, 0>>, <<margin_x, margin_y>>)
        g == local_to_global(rel_rect_with_margin, <<a[1], a[2]>>)
    IN  <<g[1], g[2], CfgW(cfg) + (margin_x * 2), CfgH(cfg) + (margin_y * 2)>>

\* A guard that lets a zero-sized region through.
DegenerateStrict(region) == region[3] < 0 \/ region[4] < 0

\* if region_w <= 0 or region_h <= 0: continue
Degenerate(region) == region[3] <= 0 \/ region[4] <= 0

\* The region handed to the nested search.
LocalSearchRegion(region, selected_screen) ==
    global_to_local(region, <<selected_screen[1], selected_screen[2]>>)

\* for rect in targets: final_rects.append(rect); final_rects.extend(list(targets))
\* locateAllOnScreen returns a sequence, which both statements traverse in full.
AppendTargets(final_rects, targets) == (final_rects \o targets) \o targets

\* A loop whose guard also reads the anchor: matches no wider than 8 are skipped.
ScanAnchorGuardOnAnchor(w) ==
    /\ wk[w].pc = "anchor"
    /\ wk[w].i <= Len(wk[w].anchors_list)
    /\ LET l == wk[w]
           region == DerivedRegion(req[w].anchor_config, l.anchors_list[l.i])
       IN  IF Degenerate(region) \/ l.anchors_list[l.i][3] <= 8
           THEN Step(w, [l EXCEPT !.i = @ + 1], <<>>, <<>>, <<>>, FALSE)
           ELSE \E o \in Outcomes(TargetRects, maxOut) :
                  LET l1 == [l EXCEPT !.scanned_regions = Append(@, region)]
                      c == Call("locateAll", "template",
                                LocalSearchRegion(region, l.selected_screen), o)
                  IN  IF o.raised
                      THEN ExceptImage(w, l1, <<c>>)
                      ELSE Step(w, [l1 EXCEPT !.final_rects = AppendTargets(@, o.rects),
                                              !.i = @ + 1],
                                <<>>, <<>>, <<c>>, FALSE)

\* One iteration of "for (ax, ay, aw, ah) in anchors_list".
ScanAnchor(w) ==
    /\ wk[w].pc = "anchor"
    /\ wk[w].i <= Len(wk[w].anchors_list)
    /\ LET l == wk[w]
           region == DerivedRegion(req[w].anchor_config, l.anchors_list[l.i])
       IN  IF Degenerate(region)
           THEN Step(w, [l EXCEPT !.i = @ + 1], <<>>, <<>>, <<>>, FALSE)
           ELSE \E o \in Outcomes(TargetRects, maxOut) :
                  LET l1 == [l EXCEPT !.scanned_regions = Append(@, region)]
                      c == Call("locateAll", "template",
                                LocalSearchRegion(region, l.selected_screen), o)
                  IN  IF o.raised
                      THEN ExceptImage(w, l1, <<c>>)
                      ELSE Step(w, [l1 EXCEPT !.final_rects = AppendTargets(@, o.rects),
                                              !.i = @ + 1],
                                <<>>, <<>>, <<c>>, FALSE)

\* An emit whose count takes every match once although the list holds it twice.
EmitAnchoredCountOnce(w) ==
    /\ wk[w].pc = "anchor"
    /\ wk[w].i > Len(wk[w].anchors_list)
    /\ LET l == wk[w]
       IN  Step(w, [l EXCEPT !.pc = "done"],
                <<Result(l.final_rects, l.found_anchors, l.scanned_regions,
                         Len(l.final_rects) \div 2)>>,
                <<>>, <<>>, FALSE)

\* The emit that ends the anchored branch.
EmitAnchored(w) ==
    /\ wk[w].pc = "anchor"
    /\ wk[w].i > Len(wk[w].anchors_list)
    /\ LET l == wk[w]
       IN  Step(w, [l EXCEPT !.pc = "done"],
                <<Result(l.final_rects, l.found_anchors, l.scanned_regions,
                         Len(l.final_rects))>>,
                <<>>, <<>>, FALSE)

\* scaled_region of the direct scan.
ScaledRegion(r, scale_x, scale_y) ==
    <<IntMul(r[1], scale_x), IntMul(r[2], scale_y),
      IntMul(r[3], scale_x), IntMul(r[4], scale_y)>>

\* A direct scan that searches the scaled region instead of search_region.
DirectScanScaled(w) ==
    /\ wk[w].pc = "direct"
    /\ \E o \in Outcomes(TargetRects, maxOut) :
         LET l == wk[w]
             sr == req[w].search_region
             scaled == IF Truthy(sr) THEN ScaledRegion(sr, l.scale_x, l.scale_y)
                       ELSE sr
             l1 == IF Truthy(sr)
                   THEN [l EXCEPT !.scanned_regions = Append(@, scaled)]
                   ELSE l
             c == Call("locateAll", "template", scaled, o)
         IN  IF o.raised
             THEN ExceptImage(w, l1, <<c>>)
             ELSE Step(w, [l1 EXCEPT !.final_rects = o.rects, !.pc = "done"],
                       <<Result(o.rects, l1.found_anchors, l1.scanned_regions,
                                Len(o.rects))>>,
                       <<>>, <<c>>, FALSE)

\* The else branch: no anchor configured.
DirectScan(w) ==
    /\ wk[w].pc = "direct"
    /\ \E o \in Outcomes(TargetRects, maxOut) :
         LET l == wk[w]
             sr == req[w].search_region
             l1 == IF Truthy(sr)
                   THEN [l EXCEPT !.scanned_regions =
                                     Append(@, ScaledRegion(sr, l.scale_x, l.scale_y))]
                   ELSE l
             c == Call("locateAll", "template", sr, o)
         IN  IF o.raised
             THEN ExceptImage(w, l1, <<c>>)
             ELSE Step(w, [l1 EXCEPT !.final_rects = o.rects, !.pc = "done"],
                       <<Result(o.rects, l1.found_anchors, l1.scanned_regions,
                                Len(o.rects))>>,
                       <<>>, <<c>>, FALSE)

\* -------------------------------------------------------- run_text_extraction
\* What text_signal carries: (captured_image, extracted_text).
TextResult(img, text, lines) == [img |-> img, text |-> text, lines |-> lines]

\* The outer except clause of run_text_extraction.
ExceptText(w, l, newCalls) ==
    Step(w, [l EXCEPT !.pc = "done"], <<>>, <<TextResult("null", "Error", <<>>)>>,
         newCalls, FALSE)

\* if self.screen_idx < len(monitors): ... else: return
TextOutOfRange(w, l) ==
    Step(w, [l EXCEPT !.pc = "done"], <<>>, <<>>, <<>>, FALSE)

AnchoredText(r) == r.anchor_img /\ Truthy(r.anchor_config) /\ Truthy(r.text_rect)

\* final_region taken from the last anchor match instead of the first.
AnchoredRegionLast(anchors_list, text_rect) ==
    LET a == anchors_list[Len(anchors_list)]
    IN  <<a[1] + text_rect[1], a[2] + text_rect[2], text_rect[3], text_rect[4]>>

\* final_region from the first anchor match and the relative text_rect.
AnchoredRegion(anchors_list, text_rect) ==
    LET a == anchors_list[1]
    IN  <<a[1] + text_rect[1], a[2] + text_rect[2], text_rect[3], text_rect[4]>>

\* Session, get_monitors_safe, bounds check, and the static-region branch.
RunTextStart(w) ==
    /\ wk[w].pc = "start"
    /\ req[w].mode = "text"
    /\ \/ \E d \in Displays :
            LET l1 == [wk[w] EXCEPT !.monitors = d.monitors]
                idx == req[w].screen_idx
            IN  IF ~InRange(idx, d.monitors)
                THEN TextOutOfRange(w, l1)
                ELSE LET l2 == [l1 EXCEPT !.selected_screen = d.monitors[idx + 1]]
                     IN  IF AnchoredText(req[w])
                         THEN Step(w, [l2 EXCEPT !.pc = "tlocate"],
                                   <<>>, <<>>, <<>>, FALSE)
                         ELSE IF ~Truthy(req[w].text_rect)
                         THEN Step(w, [l2 EXCEPT !.pc = "done"], <<>>,
                                   <<TextResult("null", "No region defined", <<>>)>>,
                                   <<>>, FALSE)
                         ELSE Step(w, [l2 EXCEPT !.final_region = req[w].text_rect,
                                                 !.pc = "capture"],
                                   <<>>, <<>>, <<>>, FALSE)
       \/ ExceptText(w, wk[w], <<>>)

\* An anchor search that falls back to the static text_rect when nothing is found.
TextLocateAnchorFallback(w) ==
    /\ wk[w].pc = "tlocate"
    /\ \E o \in Outcomes(AnchorRects, maxOut) :
         LET l == wk[w]
             c == Call("locateAll", "anchor", req[w].search_region, o)
         IN  IF o.raised
             THEN ExceptText(w, l, <<c>>)
             ELSE Step(w, [l EXCEPT !.anchors_list = o.rects,
                                    !.final_region =
                                        IF o.rects = <<>> THEN req[w].text_rect
                                        ELSE AnchoredRegion(o.rects, req[w].text_rect),
                                    !.pc = "capture"],
                       <<>>, <<>>, <<c>>, FALSE)

\* The anchor search of the text pipeline and the resolution of final_region.
TextLocateAnchor(w) ==
    /\ wk[w].pc = "tlocate"
    /\ \E o \in Outcomes(AnchorRects, maxOut) :
         LET l == wk[w]
             c == Call("locateAll", "anchor", req[w].search_region, o)
         IN  IF o.raised
             THEN ExceptText(w, l, <<c>>)
             ELSE IF o.rects = <<>>
             THEN Step(w, [l EXCEPT !.anchors_list = o.rects, !.pc = "done"], <<>>,
                       <<TextResult("null", "Anchor not found", <<>>)>>, <<c>>, FALSE)
             ELSE Step(w, [l EXCEPT !.anchors_list = o.rects,
                                    !.final_region =
                                        AnchoredRegion(o.rects, req[w].text_rect),
                                    !.pc = "capture"],
                       <<>>, <<>>, <<c>>, FALSE)

\* Offsets read in the order (left, top, right, bottom).
AdjustRegionSwapped(final_region, text_offsets) ==
    LET left == text_offsets[1]
        top == text_offsets[2]
        right == text_offsets[3]
        bottom == text_offsets[4]
    IN  <<final_region[1] - left, final_region[2] - top,
          final_region[3] + left + right, final_region[4] + top + bottom>>

\* capture_region: final_region with the fine-tuning offsets applied.
AdjustRegion(final_region, text_offsets) ==
    LET fx == final_region[1]
        fy == final_region[2]
        fw == final_region[3]
        fh == final_region[4]
        top == text_offsets[1]
        bottom == text_offsets[2]
        left == text_offsets[3]
        right == text_offsets[4]
    IN  <<fx - left, fy - top, fw + left + right, fh + top + bottom>>

\* What session._prepare_capture hands back as img_data, or that it raised.
CaptureOutcomes == {"raised", "none", "empty", "pixels"}

\* A capture step that only checks "img_data is None": an empty buffer goes on
\* to recognition.
TextCaptureNoSizeCheck(w) ==
    /\ wk[w].pc = "capture"
    /\ LET l == wk[w]
       IN  IF req[w].text_offsets = None
           THEN ExceptText(w, l, <<>>)
           ELSE \E data \in CaptureOutcomes :
                  LET region == AdjustRegion(l.final_region, req[w].text_offsets)
                      l1 == [l EXCEPT !.capture_region = region]
                      c == [fn |-> "capture", image |-> data, region |-> region,
                            raised |-> (data = "raised"), rects |-> <<>>]
                  IN  IF data = "raised"
                      THEN ExceptText(w, l1, <<c>>)
                      ELSE IF data = "none"
                      THEN Step(w, [l1 EXCEPT !.pc = "done"], <<>>,
                                <<TextResult("null", "Capture Error", <<>>)>>,
                                <<c>>, FALSE)
                      ELSE Step(w, [l1 EXCEPT !.img_data = data, !.pc = "ocr"],
                                <<>>, <<>>, <<c>>, FALSE)

\* Fine-tuning offsets, session._prepare_capture, and the empty-capture check.
TextCapture(w) ==
    /\ wk[w].pc = "capture"
    /\ LET l == wk[w]
       IN  IF req[w].text_offsets = None
           THEN ExceptText(w, l, <<>>)   \* unpacking None raises TypeError
           ELSE \E data \in CaptureOutcomes :
                  LET region == AdjustRegion(l.final_region, req[w].text_offsets)
                      l1 == [l EXCEPT !.capture_region = region]
                      c == [fn |-> "capture", image |-> data, region |-> region,
                            raised |-> (data = "raised"), rects |-> <<>>]
                  IN  IF data = "raised"
                      THEN ExceptText(w, l1, <<c>>)
                      ELSE IF data \in {"none", "empty"}
                      THEN Step(w, [l1 EXCEPT !.pc = "done"], <<>>,
                                <<TextResult("null", "Capture Error", <<>>)>>,
                                <<c>>, FALSE)
                      ELSE Step(w, [l1 EXCEPT !.img_data = data, !.pc = "ocr"],
                                <<>>, <<>>, <<c>>, FALSE)

\* Parameters of text_recognition.get_text_from_image besides image_data.
OcrParams == {"lang"}

\* Keyword arguments run_text_extraction passes to get_text_from_image.
OcrKwargs == {"mode", "use_det"}

TextLines == {"l1", "l2"}

\* What the recognition engine does with the captured bitmap: it returns the
\* recognised lines, or it fails.
EngineOutcomes == Outcomes(TextLines, maxOut)

\* Outcome of the get_text_from_image call when the engine would do e: a
\* keyword the function does not take raises TypeError before its body runs;
\* otherwise the lines are returned, or the engine's failure is re-raised.
OcrOutcome(e) ==
    IF OcrKwargs \subseteq OcrParams
    THEN e
    ELSE [raised |-> TRUE, rects |-> <<>>]

RECURSIVE JoinLines(_)
\* "\n".join(lines)
JoinLines(lines) ==
    IF Len(lines) <= 1 THEN lines
    ELSE <<Head(lines), "\n">> \o JoinLines(Tail(lines))

\* The OCR step without its own try/except: the failure reaches the outer
\* except clause, which emits an empty image.
TextOcrPropagates(w) ==
    /\ wk[w].pc = "ocr"
    /\ \E e \in EngineOutcomes :
         LET l == [wk[w] EXCEPT !.engine = e]
             o == OcrOutcome(e)
             c == Call("ocr", l.img_data, l.capture_region, o)
         IN  IF o.raised
             THEN ExceptText(w, l, <<c>>)
             ELSE Step(w, [l EXCEPT !.pc = "done"], <<>>,
                       <<TextResult("captured", "text", JoinLines(o.rects))>>,
                       <<c>>, FALSE)

\* Preview image, OCR (with its own except), and the final emit.
TextOcr(w) ==
    /\ wk[w].pc = "ocr"
    /\ \E e \in EngineOutcomes :
         LET l == [wk[w] EXCEPT !.engine = e]
             o == OcrOutcome(e)
             c == Call("ocr", l.img_data, l.capture_region, o)
             full_text == IF o.raised
                          THEN TextResult("captured", "OCR Error", <<>>)
                          ELSE TextResult("captured", "text", JoinLines(o.rects))
         IN  Step(w, [l EXCEPT !.pc = "done"], <<>>, <<full_text>>, <<c>>, FALSE)

Init ==
    /\ maxOut = MaxMatches
    /\ \E r \in Requests : req = [w \in Workers |-> r]
    /\ wk = [w \in Workers |-> IF w = 1 THEN Local0 ELSE Off]
    /\ results = [w \in Workers |-> <<>>]
    /\ texts = [w \in Workers |-> <<>>]
    /\ escaped = [w \in Workers |-> FALSE]
    /\ calls = [w \in Workers |-> <<>>]

Next ==
    \E w \in Workers :
        \/ RunImageStart(w)
        \/ LocateAnchors(w)
        \/ ScanAnchor(w)
        \/ EmitAnchored(w)
        \/ DirectScan(w)
        \/ RunTextStart(w)
        \/ TextLocateAnchor(w)
        \/ TextCapture(w)
        \/ TextOcr(w)

Spec == Init /\ [][Next]_vars

\* Two workers started on different requests, their steps interleaved.
InitConc ==
    /\ maxOut = ConcMatches
    /\ \E j, k \in DOMAIN ConcRequests :
          /\ j < k
          /\ req = [w \in Workers |-> IF w = 1 THEN ConcRequests[j]
                                                 ELSE ConcRequests[k]]
    /\ wk = [w \in Workers |-> Local0]
    /\ results = [w \in Workers |-> <<>>]
    /\ texts = [w \in Workers |-> <<>>]
    /\ escaped = [w \in Workers |-> FALSE]
    /\ calls = [w \in Workers |-> <<>>]

SpecConc == InitConc /\ [][Next]_vars

\* ================================================================= properties
Running(w) == wk[w].pc \notin {"off", "done"}

Done(w) == wk[w].pc = "done"

ImageRun(w) == wk[w].pc # "off" /\ req[w].mode = "image"

TextRun(w) == wk[w].pc # "off" /\ req[w].mode = "text"

\* The calls of worker w so far that satisfy P.
CallsWhere(w, P(_)) == {k \in 1..Len(calls[w]) : P(calls[w][k])}

IsRaised(c) == c.raised

IsTemplateSearch(c) == c.fn = "locateAll" /\ c.image = "template"

IsEmptyAnchorSearch(c) ==
    c.fn = "locateAll" /\ c.image = "anchor" /\ ~c.raised /\ c.rects = <<>>

IsCapture(c) == c.fn = "capture"

IsOcr(c) == c.fn = "ocr"

\* The next step of worker w.
WorkerStep(w) ==
    \/ RunImageStart(w) \/ LocateAnchors(w) \/ ScanAnchor(w) \/ EmitAnchored(w)
    \/ DirectScan(w) \/ RunTextStart(w) \/ TextLocateAnchor(w) \/ TextCapture(w)
    \/ TextOcr(w)

\* C1: every run of the image-detection pipeline, whatever monitor enumeration
\* and the search primitive return or raise, delivers exactly one result on
\* result_signal (none before it ends, one when it has ended, never a second,
\* nothing on text_signal), never stops short of its end, and lets no
\* exception escape.
C1_ImageDeliversExactlyOne ==
    \A w \in Workers :
        ImageRun(w) =>
            /\ ~escaped[w]
            /\ texts[w] = <<>>
            /\ Running(w) => (results[w] = <<>> /\ ENABLED WorkerStep(w))
            /\ Done(w) => Len(results[w]) = 1

\* C1 witness: a run ended with one result after the nested search raised.
C1_Witness ==
    \E w \in Workers :
        /\ ImageRun(w) /\ Done(w) /\ Len(results[w]) = 1
        /\ Len(calls[w]) = 2 /\ calls[w][2].raised /\ IsTemplateSearch(calls[w][2])

\* C2: every run of the region-capture pipeline, a run with an out-of-range
\* monitor index included, has delivered exactly one tagged result on
\* text_signal when it ends, and no exception escapes.
C2_TextDeliversExactlyOne ==
    \A w \in Workers :
        (TextRun(w) /\ Done(w)) => (Len(texts[w]) = 1 /\ ~escaped[w])

\* C3: when the monitor index is out of range or the search primitive raised
\* at any point of an image-detection run, the delivered result is exactly
\* ([], [], [], 0).
C3_HardFailureIsEmpty ==
    \A w \in Workers :
        (/\ ImageRun(w) /\ Done(w)
         /\ \/ ~InRange(req[w].screen_idx, wk[w].monitors)
            \/ CallsWhere(w, IsRaised) # {})
        => results[w] = <<EmptyResult>>

\* C3 witness: the nested scan of the second anchor raised after the first
\* anchor contributed matches and a scanned region.
C3_Witness ==
    \E w \in Workers :
        /\ ImageRun(w) /\ Done(w)
        /\ Len(calls[w]) = 3 /\ calls[w][3].raised
        /\ calls[w][2].rects # <<>>
        /\ wk[w].final_rects # <<>> /\ Len(wk[w].scanned_regions) = 2
        /\ results[w] = <<EmptyResult>>

RECURSIVE Flatten(_)
Flatten(ss) == IF ss = <<>> THEN <<>> ELSE Head(ss) \o Flatten(Tail(ss))

\* The three lists of a worker that ran alone on request r, on the selected
\* monitor, and was handed the primitive outcomes outs so far.
AloneLists(r, l, outs) ==
    IF Anchored(r)
    THEN IF outs = <<>> \/ outs[1].raised
         THEN [final_rects |-> <<>>, found_anchors |-> <<>>, scanned_regions |-> <<>>]
         ELSE LET n == Len(outs) - 1
              IN  [final_rects |->
                       Flatten([k \in 1..n |-> outs[k + 1].rects \o outs[k + 1].rects]),
                   found_anchors |-> outs[1].rects,
                   scanned_regions |->
                       [k \in 1..n |->
                           LET a == outs[1].rects[k]
                               c == r.anchor_config
                           IN  <<a[1] + c[1] - c[5], a[2] + c[2] - c[6],
                                 c[3] + 2 * c[5], c[4] + 2 * c[6]>>]]
    ELSE IF outs = <<>>
    THEN [final_rects |-> <<>>, found_anchors |-> <<>>, scanned_regions |-> <<>>]
    ELSE [final_rects |-> outs[1].rects, found_anchors |-> <<>>,
          scanned_regions |->
              IF r.search_region = None THEN <<>>
              ELSE << <<IntMul(r.search_region[1], l.scale_x),
                        IntMul(r.search_region[2], l.scale_y),
                        IntMul(r.search_region[3], l.scale_x),
                        IntMul(r.search_region[4], l.scale_y)>> >>]

\* What that worker delivers.
AloneResult(r, l, outs) ==
    IF ~InRange(r.screen_idx, l.monitors) \/ \E k \in 1..Len(outs) : outs[k].raised
    THEN EmptyResult
    ELSE LET a == AloneLists(r, l, outs)
         IN  Result(a.final_rects, a.found_anchors, a.scanned_regions,
                    Len(a.final_rects))

\* C4: under every interleaving of two workers on different requests, the
\* match, anchor and scanned-region lists of an image-detection worker are at
\* every moment those of a worker running alone that received the same
\* primitive outputs, and so is the one result it delivers.
C4_WorkersIsolated ==
    \A w \in Workers :
        ImageRun(w) =>
            LET a == AloneLists(req[w], wk[w], calls[w])
            IN  /\ wk[w].final_rects = a.final_rects
                /\ wk[w].found_anchors = a.found_anchors
                /\ wk[w].scanned_regions = a.scanned_regions
                /\ Done(w) => results[w] = <<AloneResult(req[w], wk[w], calls[w])>>
                /\ Running(w) => results[w] = <<>>

\* C4 witness: two image workers in mid-run at once, each holding matches and
\* anchors of its own that it has not delivered yet.
C4_Witness ==
    /\ \A w \in Workers :
          /\ ImageRun(w) /\ wk[w].pc = "anchor" /\ results[w] = <<>>
          /\ wk[w].final_rects # <<>> /\ wk[w].found_anchors # <<>>
    /\ wk[1].scanned_regions # wk[2].scanned_regions
    /\ wk[1].final_rects # wk[2].final_rects

\* C5: in an anchored image-detection run whose anchor search returned no
\* match, the run goes straight to its end: the search primitive is never
\* invoked with the template and the delivered result is ([], [], [], 0).
C5_NoAnchorsNoScan ==
    \A w \in Workers :
        (ImageRun(w) /\ Anchored(req[w]) /\ CallsWhere(w, IsEmptyAnchorSearch) # {})
        => /\ CallsWhere(w, IsTemplateSearch) = {}
           /\ wk[w].pc \in {"anchor", "done"}
           /\ Done(w) => results[w] = <<EmptyResult>>

\* C5 witness: an anchored run ended after an anchor search without matches.
C5_Witness ==
    \E w \in Workers :
        /\ ImageRun(w) /\ Anchored(req[w]) /\ Done(w)
        /\ CallsWhere(w, IsEmptyAnchorSearch) # {}
        /\ results[w] = <<EmptyResult>>

\* C6: the k-th scanned region of an anchored run is
\* (ax + offset_x - margin_x, ay + offset_y - margin_y, w + 2 margin_x,
\* h + 2 margin_y) for the k-th anchor (ax, ay, aw, ah); it does not change
\* with aw or ah; offset (10,10), w 100, h 50, margin (5,5) and anchor
\* (200,300,30,30) give (205, 305, 110, 60).
C6_DerivedRegion ==
    \A w \in Workers :
        (ImageRun(w) /\ Anchored(req[w])) =>
            \A k \in 1..Len(wk[w].scanned_regions) :
                LET cfg == req[w].anchor_config
                    a == wk[w].anchors_list[k]
                    r == wk[w].scanned_regions[k]
                IN  /\ r = <<a[1] + OffsetX(cfg) - MarginX(cfg),
                             a[2] + OffsetY(cfg) - MarginY(cfg),
                             CfgW(cfg) + 2 * MarginX(cfg),
                             CfgH(cfg) + 2 * MarginY(cfg)>>
                    /\ \A sz \in {<<0, 0>>, <<8, 30>>} :
                           DerivedRegion(cfg, <<a[1], a[2], sz[1], sz[2]>>) = r
                    /\ (cfg = <<10, 10, 100, 50, 5, 5>> /\ a = <<200, 300, 30, 30>>)
                           => r = <<205, 305, 110, 60>>

\* C6 witness: the worked example was recorded as a scanned region.
C6_Witness ==
    \E w \in Workers :
        /\ ImageRun(w) /\ req[w].anchor_config = <<10, 10, 100, 50, 5, 5>>
        /\ Len(wk[w].scanned_regions) = 2
        /\ wk[w].anchors_list[2] = <<200, 300, 30, 30>>
        /\ wk[w].scanned_regions[2] = <<205, 305, 110, 60>>

\* The derived region of every anchor of the request is degenerate.
DegenerateConfig(cfg) ==
    CfgW(cfg) + 2 * MarginX(cfg) <= 0 \/ CfgH(cfg) + 2 * MarginY(cfg) <= 0

\* C7: in an anchored run whose derived regions have width <= 0 or height <= 0
\* every anchor is skipped: no scanned region, no match and no nested search;
\* the loop goes on over the remaining anchors, and the run ends by delivering
\* a result (the anchors found, no matches, no scanned regions, count 0).
C7_DegenerateSkipped ==
    \A w \in Workers :
        (ImageRun(w) /\ Anchored(req[w]) /\ DegenerateConfig(req[w].anchor_config))
        => /\ wk[w].scanned_regions = <<>>
           /\ wk[w].final_rects = <<>>
           /\ CallsWhere(w, IsTemplateSearch) = {}
           /\ Running(w) => ENABLED WorkerStep(w)
           /\ (Done(w) /\ CallsWhere(w, IsRaised) = {} /\ wk[w].selected_screen # None)
               => /\ wk[w].i = Len(wk[w].anchors_list) + 1
                  /\ results[w] = <<Result(<<>>, calls[w][1].rects, <<>>, 0)>>

\* C7 witness: a run ended after skipping two degenerate anchors.
C7_Witness ==
    \E w \in Workers :
        /\ ImageRun(w) /\ Anchored(req[w]) /\ DegenerateConfig(req[w].anchor_config)
        /\ Done(w) /\ Len(wk[w].anchors_list) = 2 /\ wk[w].i = 3
        /\ Len(results[w]) = 1 /\ Len(results[w][1].anchors) = 2

\* C8: in a region-capture run with anchor image, AnchorConfig and base rect
\* configured whose anchor search returned no match, the single delivered
\* result is the failure "Anchor not found", and neither the capture primitive
\* nor text recognition is invoked.
C8_AnchorNotFound ==
    \A w \in Workers :
        (TextRun(w) /\ AnchoredText(req[w]) /\ CallsWhere(w, IsEmptyAnchorSearch) # {})
        => /\ Done(w)
           /\ texts[w] = <<TextResult("null", "Anchor not found", <<>>)>>
           /\ CallsWhere(w, IsCapture) = {}
           /\ CallsWhere(w, IsOcr) = {}

\* C8 witness: an anchored region-capture run whose anchor search found nothing.
C8_Witness ==
    \E w \in Workers :
        /\ TextRun(w) /\ AnchoredText(req[w]) /\ Len(calls[w]) = 1
        /\ IsEmptyAnchorSearch(calls[w][1]) /\ Len(texts[w]) = 1

\* C9: the region handed to the capture primitive is
\* (x - left, y - top, w + left + right, h + top + bottom) for the resolved
\* final_region (x, y, w, h) and offsets (top, bottom, left, right);
\* offsets (2, 3, 1, 4) on (10, 10, 20, 20) give (9, 8, 25, 25).
C9_CaptureRegion ==
    \A w \in Workers :
        TextRun(w) =>
            \A k \in CallsWhere(w, IsCapture) :
                LET f == wk[w].final_region
                    o == req[w].text_offsets
                    r == calls[w][k].region
                IN  /\ r = <<f[1] - o[3], f[2] - o[1], f[3] + o[3] + o[4],
                             f[4] + o[1] + o[2]>>
                    /\ (f = <<10, 10, 20, 20>> /\ o = <<2, 3, 1, 4>>)
                           => r = <<9, 8, 25, 25>>

\* C9 witness: the worked example reached the capture primitive.
C9_Witness ==
    \E w \in Workers :
        /\ TextRun(w) /\ wk[w].final_region = <<10, 10, 20, 20>>
        /\ req[w].text_offsets = <<2, 3, 1, 4>>
        /\ \E k \in CallsWhere(w, IsCapture) : calls[w][k].region = <<9, 8, 25, 25>>

\* The scale factors the ScalingResolver prescribes.
RefScale(sc, screen, target_dpr) ==
    CASE sc.scaling_type = "dpr" /\ sc.source_dpr # None /\ target_dpr # None
             /\ sc.source_dpr[1] # 0 /\ target_dpr[1] # 0
           -> << <<target_dpr[1] * sc.source_dpr[2], target_dpr[2] * sc.source_dpr[1]>>,
                 <<target_dpr[1] * sc.source_dpr[2], target_dpr[2] * sc.source_dpr[1]>> >>
      [] sc.scaling_type = "resolution" /\ sc.source_resolution # None
             /\ sc.source_resolution[1] > 0 /\ sc.source_resolution[2] > 0
           -> << <<screen[3], sc.source_resolution[1]>>,
                 <<screen[4], sc.source_resolution[2]>> >>
      [] OTHER -> << <<1, 1>>, <<1, 1>> >>

\* C10: once the monitor is selected, the scale factors of an image-detection
\* run are defined and equal the ScalingResolver's: target_dpr / source_dpr on
\* both axes in mode dpr when both are present and nonzero, (target_w /
\* source_w, target_h / source_h) in mode resolution when source_resolution is
\* present with both components > 0, (1.0, 1.0) otherwise; source (1920, 1080)
\* and target (3840, 2160) give (2.0, 2.0); computing them never fails the run.
C10_ScaleFactors ==
    \A w \in Workers :
        (ImageRun(w) /\ wk[w].selected_screen # None) =>
            LET sc == req[w].scaling
                scr == wk[w].selected_screen
                ref == RefScale(sc, scr, wk[w].target_dpr)
            IN  /\ wk[w].scale_x[2] # 0 /\ wk[w].scale_y[2] # 0
                /\ FracEq(wk[w].scale_x, ref[1])
                /\ FracEq(wk[w].scale_y, ref[2])
                /\ (sc.scaling_type = "resolution"
                    /\ sc.source_resolution = <<1920, 1080>>
                    /\ scr[3] = 3840 /\ scr[4] = 2160)
                       => (FracEq(wk[w].scale_x, <<2, 1>>)
                           /\ FracEq(wk[w].scale_y, <<2, 1>>))
                /\ calls[w] = <<>> => wk[w].pc \in {"locate", "direct"}

\* C10 witness: a run scaled from (1920, 1080) to (3840, 2160).
C10_Witness ==
    \E w \in Workers :
        /\ ImageRun(w) /\ wk[w].selected_screen = <<1920, 0, 3840, 2160>>
        /\ req[w].scaling.source_resolution = <<1920, 1080>>
        /\ req[w].scaling.scaling_type = "resolution"
        /\ FracEq(wk[w].scale_x, <<2, 1>>)

\* C11: when text recognition raises after a successful capture, the run
\* still ends with exactly one result on text_signal, carrying the captured
\* image and the "OCR Error" payload; nothing escapes, and the failure is not
\* reported with an empty image.
C11_OcrFailureEmbedded ==
    \A w \in Workers :
        TextRun(w) =>
            \A k \in CallsWhere(w, IsOcr) :
                calls[w][k].raised =>
                    /\ Done(w) /\ ~escaped[w]
                    /\ calls[w][k - 1].fn = "capture" /\ calls[w][k - 1].image = "pixels"
                    /\ texts[w] = <<TextResult("captured", "OCR Error", <<>>)>>

\* C11 witness: recognition raised after the capture returned pixels.
C11_Witness ==
    \E w \in Workers :
        /\ TextRun(w) /\ Done(w) /\ wk[w].img_data = "pixels"
        /\ \E k \in CallsWhere(w, IsOcr) : calls[w][k].raised
        /\ Len(texts[w]) = 1 /\ texts[w][1].img = "captured"

\* The origins the pipeline converts by: the monitor's, the anchor's, the margin.
OriginsOf(w, k) ==
    { <<wk[w].selected_screen[1], wk[w].selected_screen[2]>>,
      <<wk[w].anchors_list[k][1], wk[w].anchors_list[k][2]>>,
      <<MarginX(req[w].anchor_config), MarginY(req[w].anchor_config)>> }

\* C12: global_to_local subtracts the origin from x, y and local_to_global
\* adds it, both leave width and height unchanged, and each undoes the other:
\* for every region R the anchored scan derives and every origin O it converts
\* by, local_to_global(global_to_local(R, O), O) = R and
\* global_to_local(local_to_global(R, O), O) = R; the region handed to the
\* nested search converts back to the region it was made from.
C12_RoundTrip ==
    \A w \in Workers :
        (ImageRun(w) /\ Anchored(req[w])) =>
            \A k \in 1..Len(wk[w].scanned_regions) :
                LET R == wk[w].scanned_regions[k]
                IN  /\ \A O \in OriginsOf(w, k) :
                          /\ global_to_local(R, O) = <<R[1] - O[1], R[2] - O[2], R[3], R[4]>>
                          /\ local_to_global(R, O) = <<R[1] + O[1], R[2] + O[2], R[3], R[4]>>
                          /\ local_to_global(global_to_local(R, O), O) = R
                          /\ global_to_local(local_to_global(R, O), O) = R
                    /\ local_to_global(calls[w][k + 1].region,
                                       <<wk[w].selected_screen[1],
                                         wk[w].selected_screen[2]>>) = R

\* C12 witness: a region converted by the non-zero origin of the second monitor.
C12_Witness ==
    \E w \in Workers :
        /\ ImageRun(w) /\ Anchored(req[w])
        /\ wk[w].selected_screen = <<1920, 0, 3840, 2160>>
        /\ Len(wk[w].scanned_regions) = 1
        /\ calls[w][2].region # wk[w].scanned_regions[1]

\* An anchored run that went through its loop: monitor in range, nothing raised.
AnchoredCompleted(w) ==
    /\ ImageRun(w) /\ Anchored(req[w]) /\ Done(w)
    /\ wk[w].selected_screen # None
    /\ CallsWhere(w, IsRaised) = {}

\* The match sequences the nested scans of worker w returned, in anchor order.
NestedReturns(w) == [k \in 1..(Len(calls[w]) - 1) |-> calls[w][k + 1].rects]

\* C13: the match list an anchored run delivers is the concatenation, in
\* anchor order, of the sequences its nested scans returned, each returned
\* match appearing exactly once (a scan returning k matches adds k entries).
C13_MatchesOnce ==
    \A w \in Workers :
        AnchoredCompleted(w) =>
            /\ results[w][1].rects = Flatten(NestedReturns(w))
            /\ \A k \in 2..Len(calls[w]) :
                   IsTemplateSearch(calls[w][k])

\* C14: the region handed to each nested search is the derived region as it
\* is recorded in scanned_regions, whatever the monitor's origin: no shift by
\* the monitor origin is applied to a region derived from screen-local anchors.
C14_NestedRegionUnshifted ==
    \A w \in Workers :
        (ImageRun(w) /\ Anchored(req[w])) =>
            \A k \in 1..Len(wk[w].scanned_regions) :
                calls[w][k + 1].region = wk[w].scanned_regions[k]

\* C15: in every result delivered on result_signal, on every path, the count
\* equals the number of rects of the delivered match list.
C15_CountIsLength ==
    \A w \in Workers :
        \A k \in 1..Len(results[w]) :
            results[w][k].count = Len(results[w][k].rects)

\* C15 witness: an anchored run delivered matches, and their count.
C15_Witness ==
    \E w \in Workers :
        /\ AnchoredCompleted(w)
        /\ Len(results[w][1].rects) = 4 /\ results[w][1].count = 4

\* A direct scan that ran to its emit: monitor in range, nothing raised.
DirectCompleted(w) ==
    /\ ImageRun(w) /\ ~Anchored(req[w]) /\ Done(w)
    /\ wk[w].selected_screen # None
    /\ CallsWhere(w, IsRaised) = {}

\* C16: a run without anchor invokes the search primitive at most once, and
\* when it ends without failure exactly once, with the template and the
\* request's search_region; the delivered match list is the sequence that
\* call returned, whatever it is, and the anchor list is empty.
C16_DirectScanOnce ==
    \A w \in Workers :
        (ImageRun(w) /\ ~Anchored(req[w])) =>
            /\ Len(calls[w]) <= 1
            /\ DirectCompleted(w) =>
                  /\ Len(calls[w]) = 1
                  /\ IsTemplateSearch(calls[w][1])
                  /\ calls[w][1].region = req[w].search_region
                  /\ Len(results[w]) = 1
                  /\ results[w][1].rects = calls[w][1].rects
                  /\ results[w][1].anchors = <<>>

\* C16 witness: a direct scan over a search_region delivered two matches.
C16_Witness ==
    \E w \in Workers :
        /\ DirectCompleted(w) /\ req[w].search_region # None
        /\ FracEq(wk[w].scale_x, <<2, 1>>)
        /\ Len(results[w][1].rects) = 2
        /\ results[w][1].rects[1] # results[w][1].rects[2]

\* floor(n * f)
FloorMul(n, f) == (n * f[1]) \div f[2]

\* C17: a direct scan over a search_region (rx, ry, rw, rh) records exactly
\* one scanned region, (floor(rx scale_x), floor(ry scale_y), floor(rw scale_x),
\* floor(rh scale_y)), negative coordinates included; without search_region it
\* records none.
C17_ScaledRegionFloored ==
    \A w \in Workers :
        DirectCompleted(w) =>
            LET sr == req[w].search_region
                sx == wk[w].scale_x
                sy == wk[w].scale_y
            IN  IF sr = None
                THEN results[w][1].scanned_regions = <<>>
                ELSE results[w][1].scanned_regions =
                         << <<FloorMul(sr[1], sx), FloorMul(sr[2], sy),
                              FloorMul(sr[3], sx), FloorMul(sr[4], sy)>> >>

\* C18: in a region-capture run with anchor image, AnchorConfig and base rect
\* (rel_x, rel_y, w, h) whose anchor search found at least one anchor,
\* final_region = (a.x + rel_x, a.y + rel_y, w, h) for the first anchor a
\* returned: a translation only, whatever the later anchors and whatever the
\* anchor's size.
C18_FirstAnchorOnly ==
    \A w \in Workers :
        (TextRun(w) /\ AnchoredText(req[w]) /\ wk[w].anchors_list # <<>>) =>
            LET a == calls[w][1].rects[1]
                t == req[w].text_rect
            IN  /\ wk[w].final_region = <<a[1] + t[1], a[2] + t[2], t[3], t[4]>>
                /\ \A k \in CallsWhere(w, IsCapture) :
                       calls[w][k].region =
                           AdjustRegion(<<a[1] + t[1], a[2] + t[2], t[3], t[4]>>,
                                        req[w].text_offsets)

\* C18 witness: two different anchors were found and the region of the first
\* reached the capture primitive.
C18_Witness ==
    \E w \in Workers :
        /\ TextRun(w) /\ AnchoredText(req[w])
        /\ Len(wk[w].anchors_list) = 2
        /\ wk[w].anchors_list[1] = <<200, 300, 30, 30>>
        /\ wk[w].anchors_list[2] = <<0, 40, 8, 8>>
        /\ req[w].text_rect = <<-4, 6, 20, 20>>
        /\ wk[w].final_region = <<196, 306, 20, 20>>
        /\ CallsWhere(w, IsCapture) # {}

IsSearch(c) == c.fn = "locateAll"

IsEmptyCapture(c) == c.fn = "capture" /\ c.image \in {"none", "empty"}

\* C19: in every region-capture run the stages follow one another and a
\* failure ends the run: the capture primitive is invoked at most once and
\* only with a final region resolved (and after the anchor search, if any);
\* a run past the monitor check with no anchored path and no base rect ends
\* with "No region defined" and no search or capture call; a capture without
\* data ends the run with "Capture Error" and no recognition call; recognition
\* runs at most once, right after a capture that returned pixels.
C19_StagesOrdered ==
    \A w \in Workers :
        TextRun(w) =>
            /\ Cardinality(CallsWhere(w, IsCapture)) <= 1
            /\ Cardinality(CallsWhere(w, IsOcr)) <= 1
            /\ \A k \in CallsWhere(w, IsCapture) :
                   /\ wk[w].final_region # None
                   /\ \A j \in CallsWhere(w, IsSearch) : j < k
                   /\ IsEmptyCapture(calls[w][k]) =>
                          /\ Done(w) /\ k = Len(calls[w])
                          /\ texts[w] = <<TextResult("null", "Capture Error", <<>>)>>
            /\ \A k \in CallsWhere(w, IsOcr) :
                   /\ k > 1
                   /\ calls[w][k - 1].fn = "capture"
                   /\ calls[w][k - 1].image = "pixels"
            /\ (/\ ~AnchoredText(req[w]) /\ req[w].text_rect = None
                /\ wk[w].selected_screen # None)
               => /\ Done(w) /\ calls[w] = <<>>
                  /\ texts[w] = <<TextResult("null", "No region defined", <<>>)>>
            /\ Done(w) => ~ENABLED WorkerStep(w)

\* C19 witness: a capture of an anchored region came back empty.
C19_Witness ==
    \E w \in Workers :
        /\ TextRun(w) /\ Done(w) /\ Len(calls[w]) = 2
        /\ IsSearch(calls[w][1]) /\ calls[w][2].fn = "capture"
        /\ calls[w][2].image = "empty"
        /\ texts[w] = <<TextResult("null", "Capture Error", <<>>)>>

\* C20: when the capture yields data and the recognition engine returns the
\* lines L for the bitmap, the delivered result carries the captured image and
\* the lines of L joined by newlines, in the engine's order: recognition is
\* reached and its output, not an error payload, is delivered.
C20_RecognisedTextDelivered ==
    \A w \in Workers :
        (/\ TextRun(w) /\ Done(w)
         /\ CallsWhere(w, IsOcr) # {}
         /\ ~wk[w].engine.raised)
        => texts[w] = <<TextResult("captured", "text", JoinLines(wk[w].engine.rects))>>

\* The region the anchor loop derives from the match a under AnchorConfig cfg,
\* written out field by field.
RegionOf(cfg, a) ==
    <<(a[1] + OffsetX(cfg)) - MarginX(cfg), (a[2] + OffsetY(cfg)) - MarginY(cfg),
      CfgW(cfg) + 2 * MarginX(cfg), CfgH(cfg) + 2 * MarginY(cfg)>>

\* C21: in every result delivered by a non-failing anchored run the anchor list
\* is the sequence the anchor search returned, unchanged and in order (anchors
\* skipped by the degenerate guard included), and the number of scanned regions
\* is 0 or the number of anchors found, the i-th scanned region being the one
\* derived from the i-th anchor.
C21_AnchorsAndRegionsAligned ==
    \A w \in Workers :
        AnchoredCompleted(w) =>
            /\ Len(results[w]) = 1
            /\ IsSearch(calls[w][1]) /\ calls[w][1].image = "anchor"
            /\ LET r == results[w][1]
                   n == Len(r.scanned_regions)
               IN  /\ r.anchors = calls[w][1].rects
                   /\ n \in {0, Len(r.anchors)}
                   /\ \A k \in 1..n :
                          r.scanned_regions[k] = RegionOf(req[w].anchor_config, r.anchors[k])

\* C21 witness: a run delivered two different anchors in the order found, with
\* one scanned region for each.
C21_Witness ==
    \E w \in Workers :
        /\ AnchoredCompleted(w)
        /\ results[w][1].anchors = << <<200, 300, 30, 30>>, <<0, 40, 8, 8>> >>
        /\ results[w][1].scanned_regions = << <<205, 305, 110, 60>>, <<5, 45, 110, 60>> >>

====
